---- MODULE Spec2Model ----
(***************************************************************************)
(* Model of the Ollyio Discord bot: the table of conversation members with *)
(* its inactivity timers (bot.py: Member, ManageMembers), the periodic     *)
(* check_members task (bot.py: BackgroundTasks), the command and message   *)
(* handlers (bot.py: BotMain, PublicCommands, AdminCommands) and the       *)
(* conversation history of the chat bot (chatbot.py: ChatBot).             *)
(*                                                                         *)
(* The bot runs on one asyncio event loop: a handler runs without          *)
(* interruption from one `await` to the next, and other handlers run while *)
(* it is suspended in an `await`.  Every action below is one such segment. *)
(***************************************************************************)
EXTENDS Integers, Sequences, FiniteSets, TLC

\* ------------------------------------------------------------------------
\* Program constants
\* ------------------------------------------------------------------------
max_time == 600
member_limit == 5
conversation_length == 31
text_limit == 2000

\* ------------------------------------------------------------------------
\* Bounds of the model
\* ------------------------------------------------------------------------
\* Steps of half an inactivity window the clock makes (Spec).
MaxClock == 3
\* Consecutive messages of one member between two examinations by the task
\* (Spec and SpecChat; SpecFull).
MaxBurst == 4
MaxFullBurst == 1
\* Inactivity windows from the start of the bot up to which a message may
\* move a deadline.
MaxWindows == 3
\* Messages suspended in `await message.add_reaction` at the same time.
MaxInflight == 1
\* Length of the conversation history up to which an exchange still starts
\* (SpecChat).
MaxChatHistory == 32
\* Prompts without an answer the history may hold (SpecChat).
MaxUnanswered == 1
\* Whole chunks of text_limit characters in the longest response (SpecReply).
MaxChunks == 3

Users == {"u1", "u2"}
FullUsers == {"u1", "u2", "u3", "u4", "u5", "u6"}
ChatUsers == {"u1"}
BotUser == "olly"
Channels == {"c1", "c2"}
None == "None"
\* message.content: a prompt for the bot begins with ">".
Contents == {<<">", "hi">>, <<"hi">>}
\* What the backend answers: a reply, a status other than 200, no answer.
Replies == {[kind |-> "ok", text |-> <<"hello">>],
            [kind |-> "status", text |-> <<>>],
            [kind |-> "transport", text |-> <<>>]}

\* The three fields of the form that edits the instructions, and the three
\* lines of default_instructions.txt.
Personalities == {<<>>, <<"kind">>}
Goals == {<<"help">>}
Restrictions == {<<>>}
DefaultLines == <<<<"default personality">>, <<"default goal">>,
                  <<"default restriction">>>>

VARIABLES
    now,                   \* time.time(), in seconds since the bot started
    home_channel_id,       \* BotMain.home_channel_id
    conversation_members,  \* ManageMembers.conversation_members, a list of Member
    conversation_history,  \* ChatBot.conversation_history, a list of strings
    instructions,          \* ChatBot.instructions
    inflight,              \* on_message handlers suspended in add_reaction
    reaper_pc,             \* check_members: "idle", "sending" or "stopped"
    it_idx,                \* check_members: index the list iterator reads next (0-based)
    embed,                 \* check_members: the notification it is sending
    tick_t0,               \* check_members: the time at which the suspended tick began
    replying               \* on_message: the response it is delivering

vars == <<now, home_channel_id, conversation_members, conversation_history,
          instructions, inflight, reaper_pc, it_idx, embed, tick_t0, replying>>

\* ------------------------------------------------------------------------
\* Sequences and strings.  A string is a sequence of tokens.
\* ------------------------------------------------------------------------
RemoveAt(s, i) == SubSeq(s, 1, i - 1) \o SubSeq(s, i + 1, Len(s))

RECURSIVE join(_, _)
\* sep.join(parts)
join(sep, parts) ==
    IF Len(parts) = 0 THEN <<>>
    ELSE IF Len(parts) = 1 THEN parts[1]
    ELSE parts[1] \o sep \o join(sep, Tail(parts))

startswith(content, prefix) == Len(content) > 0 /\ content[1] = prefix

\* ------------------------------------------------------------------------
\* class ChatBot
\* ------------------------------------------------------------------------
commands == <<"commands">>

\* "PERSONALITY: " + personality + "\n\nGOAL: " + goal
\*     + "\n\nRESTRICTION: " + restriction
instructions_of(personality, goal, restriction) ==
    <<"PERSONALITY: ">> \o personality \o <<"\n\nGOAL: ">> \o goal
        \o <<"\n\nRESTRICTION: ">> \o restriction

\* read_instructions: the instructions it leaves; the conversation history
\* is not touched.
read_instructions ==
    instructions_of(DefaultLines[1], DefaultLines[2], DefaultLines[3])

NoResponse == <<"(No Response)">>

\* generate_response recording "(No Response)" as a turn of the history
\* when the backend answers with a status other than 200.
generate_response_recording_failure(history, prompt, answer) ==
    LET asked == Append(history, prompt)
        full_prompt == join(<<"\n">>, asked)
    IN  IF answer.kind = "transport"
        THEN [history |-> asked, payload |-> full_prompt,
              raised |-> TRUE, text |-> <<>>]
        ELSE IF answer.kind = "ok"
        THEN LET answered == Append(asked, answer.text)
             IN  [history |-> IF Len(answered) >= conversation_length
                              THEN RemoveAt(answered, 2)
                              ELSE answered,
                  payload |-> full_prompt,
                  raised |-> FALSE, text |-> answer.text]
        ELSE [history |-> Append(asked, NoResponse), payload |-> full_prompt,
              raised |-> FALSE, text |-> NoResponse]

\* generate_response deleting the first element of the history when it has
\* reached its length.
generate_response_trimming_head(history, prompt, answer) ==
    LET asked == Append(history, prompt)
        full_prompt == join(<<"\n">>, asked)
    IN  IF answer.kind = "transport"
        THEN [history |-> asked, payload |-> full_prompt,
              raised |-> TRUE, text |-> <<>>]
        ELSE IF answer.kind = "ok"
        THEN LET answered == Append(asked, answer.text)
             IN  [history |-> IF Len(answered) >= conversation_length
                              THEN RemoveAt(answered, 1)
                              ELSE answered,
                  payload |-> full_prompt,
                  raised |-> FALSE, text |-> answer.text]
        ELSE [history |-> asked, payload |-> full_prompt,
              raised |-> FALSE, text |-> NoResponse]

\* generate_response deleting the most recent prompt of the history when it
\* has reached its length.
generate_response_trimming_newest(history, prompt, answer) ==
    LET asked == Append(history, prompt)
        full_prompt == join(<<"\n">>, asked)
    IN  IF answer.kind = "transport"
        THEN [history |-> asked, payload |-> full_prompt,
              raised |-> TRUE, text |-> <<>>]
        ELSE IF answer.kind = "ok"
        THEN LET answered == Append(asked, answer.text)
             IN  [history |-> IF Len(answered) >= conversation_length
                              THEN RemoveAt(answered, Len(answered) - 1)
                              ELSE answered,
                  payload |-> full_prompt,
                  raised |-> FALSE, text |-> answer.text]
        ELSE [history |-> asked, payload |-> full_prompt,
              raised |-> FALSE, text |-> NoResponse]

\* generate_response posting the history as it stood before the prompt was
\* appended.
generate_response_posting_first(history, prompt, answer) ==
    LET asked == Append(history, prompt)
        full_prompt == join(<<"\n">>, history)
    IN  IF answer.kind = "transport"
        THEN [history |-> asked, payload |-> full_prompt,
              raised |-> TRUE, text |-> <<>>]
        ELSE IF answer.kind = "ok"
        THEN LET answered == Append(asked, answer.text)
             IN  [history |-> IF Len(answered) >= conversation_length
                              THEN RemoveAt(answered, 2)
                              ELSE answered,
                  payload |-> full_prompt,
                  raised |-> FALSE, text |-> answer.text]
        ELSE [history |-> asked, payload |-> full_prompt,
              raised |-> FALSE, text |-> NoResponse]

\* generate_response(prompt), the backend answering with answer: the history
\* it leaves, the payload it posts, and the text it returns, unless
\* requests.post raised.
generate_response(history, prompt, answer) ==
    LET asked == Append(history, prompt)
        full_prompt == join(<<"\n">>, asked)
    IN  IF answer.kind = "transport"
        THEN [history |-> asked, payload |-> full_prompt,
              raised |-> TRUE, text |-> <<>>]
        ELSE IF answer.kind = "ok"
        THEN LET answered == Append(asked, answer.text)
             IN  [history |-> IF Len(answered) >= conversation_length
                              THEN RemoveAt(answered, 2)
                              ELSE answered,
                  payload |-> full_prompt,
                  raised |-> FALSE, text |-> answer.text]
        ELSE [history |-> asked, payload |-> full_prompt,
              raised |-> FALSE, text |-> NoResponse]

reset_conversation_history(instr) == <<commands \o instr>>

\* edit_instructions: the instructions and the conversation history it leaves.
edit_instructions(personality, goal, restriction) ==
    LET instr == instructions_of(personality, goal, restriction)
    IN  [instructions |-> instr, history |-> reset_conversation_history(instr)]

reset_instructions == read_instructions

\* ------------------------------------------------------------------------
\* class Member
\* ------------------------------------------------------------------------
\* burst, base_start, base_end and untouched_since are history fields, not
\* fields of the program: the number of set_end_time calls since the entry
\* was created or last examined by check_members, its times before the first
\* of them, and the time at which the entry was created, as a set that is
\* emptied by the first set_end_time call on the entry.
Member(name, t) ==
    [name |-> name, start_time |-> t, end_time |-> max_time + t,
     burst |-> 0, base_start |-> t, base_end |-> max_time + t,
     untouched_since |-> {t}]

set_start_time(m, t) ==
    [m EXCEPT !.start_time = t,
              !.burst = 0, !.base_start = t, !.base_end = m.end_time]

\* set_end_time giving a whole window from the old deadline, the time that
\* was left not taken off.
set_end_time_whole_window(m) ==
    LET start == m.end_time
    IN  [m EXCEPT !.start_time = start,
                  !.end_time = start + max_time,
                  !.burst = @ + 1, !.untouched_since = {}]

set_end_time(m) ==
    LET remainder == m.end_time - m.start_time
        start == m.end_time
    IN  [m EXCEPT !.start_time = start,
                  !.end_time = (start + max_time) - remainder,
                  !.burst = @ + 1, !.untouched_since = {}]

get_time(m) == m.end_time - m.start_time

\* check_time with the comparison the other way round.
check_time_reversed(m) == m.start_time > m.end_time

\* check_time with `<=` for `<`.
check_time_inclusive(m) == m.start_time <= m.end_time

check_time(m) == m.start_time < m.end_time

\* ------------------------------------------------------------------------
\* class ManageMembers
\* ------------------------------------------------------------------------
\* find_member looking at the first entry only.
find_member_first(ms, member_name) ==
    Len(ms) > 0 /\ ms[1].name = member_name

find_member(ms, member_name) ==
    \E i \in 1..Len(ms) : ms[i].name = member_name

\* Index of the member get_member returns: the first one with the name.
get_member(ms, member_name) ==
    CHOOSE i \in 1..Len(ms) :
        /\ ms[i].name = member_name
        /\ \A j \in 1..(i - 1) : ms[j].name # member_name

\* add_member letting one entry too many in: `<=` for `<`.
add_member_one_more(ms, member) ==
    IF Len(ms) <= member_limit
    THEN [members |-> Append(ms, member), ok |-> TRUE]
    ELSE [members |-> ms, ok |-> FALSE]

add_member(ms, member) ==
    IF Len(ms) < member_limit
    THEN [members |-> Append(ms, member), ok |-> TRUE]
    ELSE [members |-> ms, ok |-> FALSE]

\* The `return True` of the loop body is outside the `if`: the loop ends in
\* its first iteration, whatever the first member's name.
remove_member(ms, member_name) ==
    IF Len(ms) = 0
    THEN [members |-> ms, ok |-> FALSE]
    ELSE [members |-> IF ms[1].name = member_name THEN Tail(ms) ELSE ms,
          ok |-> TRUE]

get_space(ms) == Len(ms)

\* get_space_left counting one entry more than the table holds.
get_space_left_one_more(ms) == [current |-> Len(ms) + 1, limit |-> member_limit]

\* f"Space left: {len(self.conversation_members)} / {self.member_limit}"
get_space_left(ms) == [current |-> Len(ms), limit |-> member_limit]

\* ------------------------------------------------------------------------
\* class BotMain
\* ------------------------------------------------------------------------
\* check_if_home as a two-valued test: None for every channel that is not
\* the home channel.
check_if_home_two_valued(home, channel_id) ==
    IF home = channel_id THEN "True" ELSE "None"

\* True, None or False, as the strings "True", "None", "False".
check_if_home(home, channel_id) ==
    IF home = channel_id THEN "True"
    ELSE IF home = None THEN "None"
    ELSE "False"

\* set_home behind the admin_command decorator: the home it leaves.
set_home(home, channel_id, administrator) ==
    IF ~administrator
    THEN [home |-> home, reply |-> "NeedAdmin"]
    ELSE [home |-> channel_id, reply |-> "HomeSet"]

\* on_message taking the author of a prompt into the table when the author
\* is not a member.
on_message_admitting(ms, home, author, channel_id, content) ==
    IF author = BotUser \/ check_if_home(home, channel_id) = "False"
    THEN [members |-> ms, reply |-> "none", answering |-> FALSE]
    ELSE IF ~startswith(content, ">")
    THEN [members |-> ms, reply |-> "none", answering |-> FALSE]
    ELSE IF check_if_home(home, channel_id) = "None"
    THEN [members |-> ms, reply |-> "NeedHome", answering |-> FALSE]
    ELSE IF find_member(ms, author)
    THEN [members |-> [ms EXCEPT ![get_member(ms, author)] = set_end_time(@)],
          reply |-> "none", answering |-> TRUE]
    ELSE [members |-> Append(ms, Member(author, 0)),
          reply |-> "none", answering |-> TRUE]

\* on_message up to `await message.add_reaction`: the table it leaves, what
\* it sends, and whether it goes on to answer (the author is a member).
on_message(ms, home, author, channel_id, content) ==
    IF author = BotUser \/ check_if_home(home, channel_id) = "False"
    THEN [members |-> ms, reply |-> "none", answering |-> FALSE]
    ELSE IF ~startswith(content, ">")
    THEN [members |-> ms, reply |-> "none", answering |-> FALSE]
    ELSE IF check_if_home(home, channel_id) = "None"
    THEN [members |-> ms, reply |-> "NeedHome", answering |-> FALSE]
    ELSE IF find_member(ms, author)
    THEN [members |-> [ms EXCEPT ![get_member(ms, author)] = set_end_time(@)],
          reply |-> "none", answering |-> TRUE]
    ELSE [members |-> ms, reply |-> "MustJoin", answering |-> FALSE]

\* "**" + message.author.name + "**" + " said: " + '"' + message.content[1:] + '"'
prompt_of(author, content) ==
    <<"**", author, "**", " said: ", "\"">> \o Tail(content) \o <<"\"">>

\* on_message from the end of `await message.add_reaction` on: the reaction
\* raised (the handler ends with the exception), or generate_response runs
\* and the text it returns is sent as the reply.
on_message_resume(history, message, reacted, answer) ==
    IF ~reacted
    THEN [history |-> history, raised |-> TRUE, text |-> <<>>]
    ELSE LET g == generate_response(history,
                                    prompt_of(message.author, message.content),
                                    answer)
         IN  [history |-> g.history, raised |-> g.raised, text |-> g.text]

\* [response[i : i + text_limit] for i in range(0, len(response), text_limit)],
\* dropping what is left after the last whole chunk.
parsed_response_whole_chunks(response) ==
    [k \in 1..(Len(response) \div text_limit) |->
        SubSeq(response, (k - 1) * text_limit + 1, k * text_limit)]

\* [response[i : i + text_limit] for i in range(0, len(response), text_limit)]
parsed_response(response) ==
    [k \in 1..((Len(response) + text_limit - 1) \div text_limit) |->
        SubSeq(response, (k - 1) * text_limit + 1,
               IF k * text_limit < Len(response) THEN k * text_limit
               ELSE Len(response))]

\* The messages on_message replies with, in order: the chunks of a response
\* longer than text_limit, or the response.
replies_of(response) ==
    IF Len(response) > text_limit
    THEN parsed_response(response)
    ELSE <<response>>

\* No response is being delivered.
NotReplying == [response |-> <<>>, pending |-> <<>>, replied |-> <<>>,
                pc |-> "idle"]

\* ------------------------------------------------------------------------
\* class AdminCommands
\* ------------------------------------------------------------------------
reset_conversation(history, instr, administrator) ==
    IF ~administrator
    THEN [history |-> history, reply |-> "NeedAdmin"]
    ELSE [history |-> reset_conversation_history(instr),
          reply |-> "HistoryDeleted"]

\* /edit-instructions and the form it opens for an administrator:
\* EditInstructions.on_submit with the three fields of the form.
on_submit(history, instr, personality, goal, restriction, administrator) ==
    IF ~administrator
    THEN [instructions |-> instr, history |-> history, reply |-> "NeedAdmin"]
    ELSE LET e == edit_instructions(personality, goal, restriction)
         IN  [instructions |-> e.instructions, history |-> e.history,
              reply |-> "ShowInstructions"]

\* /reset-instructions
admin_reset_instructions(instr, administrator) ==
    IF ~administrator
    THEN [instructions |-> instr, reply |-> "NeedAdmin"]
    ELSE [instructions |-> reset_instructions, reply |-> "ShowInstructions"]

\* on_ready: the instructions it leaves.
on_ready == read_instructions

\* ------------------------------------------------------------------------
\* class PublicCommands
\* ------------------------------------------------------------------------
\* join_conversation without the test of the channel.
join_conversation_anywhere(ms, home, user_name, channel_id, t) ==
    IF find_member(ms, user_name)
    THEN [members |-> ms, reply |-> "AlreadyMember"]
    ELSE LET new_member == Member(user_name, t)
             added == add_member(ms, new_member)
         IN  [members |-> added.members,
              reply |-> IF added.ok THEN "Joined" ELSE "Full"]

join_conversation(ms, home, user_name, channel_id, t) ==
    IF channel_id = home
    THEN IF find_member(ms, user_name)
         THEN [members |-> ms, reply |-> "AlreadyMember"]
         ELSE LET new_member == Member(user_name, t)
                  added == add_member(ms, new_member)
              IN  [members |-> added.members,
                   reply |-> IF added.ok THEN "Joined" ELSE "Full"]
    ELSE [members |-> ms, reply |-> "NeedHome"]

leave_conversation(ms, user_name) ==
    LET removed == remove_member(ms, user_name)
    IN  [members |-> removed.members,
         reply |-> IF removed.ok THEN "Left" ELSE "NotMember"]

\* ------------------------------------------------------------------------
\* class BackgroundTasks
\* ------------------------------------------------------------------------
NoEmbed == [title |-> None, footer |-> get_space_left(<<>>)]

\* One pass of the body of `for member in self.members.conversation_members`,
\* the list iterator standing at index i (0-based) of the live list, at time
\* t: the loop ends when the index is past the end; an unexpired member ends
\* the whole tick (`return`); an expired one is removed from the list, and
\* the task suspends in `await channel.send(embed)`, the iterator advanced.
check_members_step(ms, i, t) ==
    IF i >= Len(ms)
    THEN [members |-> ms, pc |-> "idle", idx |-> 0, embed |-> NoEmbed,
          raised |-> FALSE]
    ELSE LET member == set_start_time(ms[i + 1], t)
         IN  IF check_time(member)
             THEN [members |-> [ms EXCEPT ![i + 1] = member],
                   pc |-> "idle", idx |-> 0, embed |-> NoEmbed,
                   raised |-> FALSE]
             ELSE LET left == RemoveAt(ms, i + 1)
                  IN  [members |-> left, pc |-> "sending", idx |-> i + 1,
                       embed |-> [title |-> member.name,
                                  footer |-> get_space_left(left)],
                       raised |-> FALSE]

\* A tick of the loop, up to its first `await`.
check_members(ms, t) ==
    IF get_space(ms) = 0
    THEN [members |-> ms, pc |-> "idle", idx |-> 0, embed |-> NoEmbed,
          raised |-> FALSE]
    ELSE check_members_step(ms, 0, t)

\* `await channel.send(embed)` ends.  delivery is "ok", or the send raised:
\* nothing in check_members catches it, so the exception ends the tick there
\* (raised); the loop of discord.ext.tasks then either runs the task again
\* at the next interval ("retry": a connection error) or stops for good
\* ("stop": any other error).
check_members_resume(ms, i, delivery, t) ==
    IF delivery = "ok"
    THEN check_members_step(ms, i, t)
    ELSE [members |-> ms,
          pc |-> IF delivery = "retry" THEN "idle" ELSE "stopped",
          idx |-> 0, embed |-> NoEmbed, raised |-> TRUE]

Deliveries == {"ok", "retry", "stop"}

\* ------------------------------------------------------------------------
\* The bot as a state machine: one action for each handler segment
\* ------------------------------------------------------------------------
Init ==
    /\ now = 0
    /\ home_channel_id = None
    /\ conversation_members = <<>>
    /\ instructions = <<>>
    /\ conversation_history = <<commands \o instructions>>
    /\ inflight = {}
    /\ reaper_pc = "idle"
    /\ it_idx = 0
    /\ embed = NoEmbed
    /\ tick_t0 = 0
    /\ replying = NotReplying

SetHomeBy(c, a) ==
    /\ home_channel_id' = set_home(home_channel_id, c, a).home
    /\ UNCHANGED <<now, conversation_members, conversation_history, instructions, inflight,
                   reaper_pc, it_idx, embed, tick_t0,
                   replying>>

JoinBy(u, c) ==
    /\ conversation_members' =
           join_conversation(conversation_members, home_channel_id, u, c, now).members
    /\ UNCHANGED <<now, home_channel_id, conversation_history, instructions, inflight,
                   reaper_pc, it_idx, embed, tick_t0,
                   replying>>

LeaveBy(u) ==
    /\ conversation_members' = leave_conversation(conversation_members, u).members
    /\ UNCHANGED <<now, home_channel_id, conversation_history, instructions, inflight,
                   reaper_pc, it_idx, embed, tick_t0,
                   replying>>

\* A user sends no more than burst messages in a row and none that moves
\* the deadline past MaxWindows windows, and no more than MaxInflight messages
\* are being answered at a time.
MayTouch(u, burst) ==
    /\ Cardinality(inflight) < MaxInflight
    /\ \A i \in 1..Len(conversation_members) :
           conversation_members[i].name = u
               => /\ conversation_members[i].burst < burst
                  /\ set_end_time(conversation_members[i]).end_time
                         <= max_time * MaxWindows

MessageBy(u, c, t) ==
    LET r == on_message(conversation_members, home_channel_id, u, c, t)
    IN  /\ conversation_members' = r.members
        /\ inflight' = IF r.answering
                       THEN inflight \cup {[author |-> u, content |-> t]}
                       ELSE inflight
        /\ UNCHANGED <<now, home_channel_id, conversation_history, instructions, reaper_pc,
                       it_idx, embed, tick_t0,
                   replying>>

ResumeOf(m, reacted, a) ==
    /\ m \in inflight
    /\ inflight' = inflight \ {m}
    /\ conversation_history' =
           on_message_resume(conversation_history, m, reacted, a).history
    /\ UNCHANGED <<now, home_channel_id, conversation_members, instructions, reaper_pc,
                   it_idx, embed, tick_t0,
                   replying>>

ResetBy(a) ==
    /\ conversation_history' =
           reset_conversation(conversation_history, instructions, a).history
    /\ UNCHANGED <<now, home_channel_id, conversation_members, instructions, inflight,
                   reaper_pc, it_idx, embed, tick_t0,
                   replying>>

EditInstructionsBy(p, g, r, a) ==
    LET e == on_submit(conversation_history, instructions, p, g, r, a)
    IN  /\ instructions' = e.instructions
        /\ conversation_history' = e.history
        /\ UNCHANGED <<now, home_channel_id, conversation_members, inflight,
                       reaper_pc, it_idx, embed, tick_t0,
                   replying>>

ResetInstructionsBy(a) ==
    /\ instructions' = admin_reset_instructions(instructions, a).instructions
    /\ UNCHANGED <<now, home_channel_id, conversation_members,
                   conversation_history, inflight, reaper_pc, it_idx, embed,
                   tick_t0,
                   replying>>

OnReady ==
    /\ instructions' = on_ready
    /\ UNCHANGED <<now, home_channel_id, conversation_members,
                   conversation_history, inflight, reaper_pc, it_idx, embed,
                   tick_t0,
                   replying>>

Reaped(r) ==
    /\ conversation_members' = r.members
    /\ reaper_pc' = r.pc
    /\ it_idx' = r.idx
    /\ embed' = r.embed
    /\ tick_t0' = IF r.pc = "sending"
                  THEN (IF reaper_pc = "sending" THEN tick_t0 ELSE now)
                  ELSE 0
    /\ UNCHANGED <<now, home_channel_id, conversation_history, instructions, inflight,
                   replying>>

Tick ==
    /\ reaper_pc = "idle"
    /\ Reaped(check_members(conversation_members, now))

TickResumeWith(d) ==
    /\ reaper_pc = "sending"
    /\ Reaped(check_members_resume(conversation_members, it_idx, d, now))

TickResume == \E d \in Deliveries : TickResumeWith(d)

\* The clock moves on by step seconds, at most steps times.
Advance(step, steps) ==
    /\ now + step <= step * steps
    /\ now' = now + step
    /\ UNCHANGED <<home_channel_id, conversation_members, conversation_history,
                   instructions, inflight, reaper_pc, it_idx, embed, tick_t0,
                   replying>>

\* Prompts of the history that no answer follows.
Unanswered(history) ==
    Cardinality({i \in 2..Len(history) :
        /\ history[i][1] = "**"
        /\ i = Len(history) \/ history[i + 1][1] = "**"})

SetHome == \E c \in Channels, a \in BOOLEAN : SetHomeBy(c, a)
Join == \E u \in Users, c \in Channels : JoinBy(u, c)
Leave == \E u \in Users : LeaveBy(u)
Clock == Advance(max_time \div 2, MaxClock)
Message ==
    \E u \in Users \cup {BotUser}, c \in Channels, t \in Contents :
        /\ MayTouch(u, MaxBurst)
        /\ MessageBy(u, c, t)
\* In Spec and SpecFull an exchange starts on a history just reset.
Respond ==
    \E m \in inflight, a \in Replies :
        /\ conversation_history = reset_conversation_history(instructions)
        /\ ResumeOf(m, TRUE, a)
Drop == \E m \in inflight : ResumeOf(m, FALSE, [kind |-> "transport", text |-> <<>>])
ResetConversation == \E a \in BOOLEAN : ResetBy(a)

Next ==
    \/ SetHome
    \/ Join
    \/ Leave
    \/ Message
    \/ Respond
    \/ Drop
    \/ ResetConversation
    \/ Tick
    \/ TickResume
    \/ Clock

Spec == Init /\ [][Next]_vars

\* The bot with its scheduling: the loop of discord.ext.tasks starts
\* check_members again and again while it has not stopped, a send that can
\* succeed ends, and time goes on.
SpecLive ==
    /\ Init
    /\ [][Next]_vars
    /\ WF_vars(Tick)
    /\ WF_vars(TickResumeWith("ok"))
    /\ WF_vars(Clock)

\* The table at its capacity: six users, one more than member_limit, of
\* whom those of Users write messages, in less time than a step of the clock.
FullJoin == \E u \in FullUsers, c \in Channels : JoinBy(u, c)
FullLeave == \E u \in FullUsers : LeaveBy(u)
FullMessage ==
    \E u \in Users, c \in Channels, t \in Contents :
        /\ MayTouch(u, MaxFullBurst)
        /\ MessageBy(u, c, t)

NextFull ==
    \/ SetHome
    \/ FullJoin
    \/ FullLeave
    \/ FullMessage
    \/ Respond
    \/ Drop
    \/ ResetConversation
    \/ Tick

SpecFull == Init /\ [][NextFull]_vars

\* The conversation history at its length limit: one user, many exchanges,
\* in less time than a step of the clock.
ChatJoin == \E u \in ChatUsers, c \in Channels : JoinBy(u, c)
ChatMessage ==
    \E u \in ChatUsers, c \in Channels, t \in Contents :
        /\ MayTouch(u, MaxBurst)
        /\ MessageBy(u, c, t)
ChatRespond ==
    \E m \in inflight, a \in Replies :
        /\ Len(conversation_history) <= MaxChatHistory
        /\ a.kind # "ok" => Unanswered(conversation_history) < MaxUnanswered
        /\ ResumeOf(m, TRUE, a)

EditInstructions ==
    \E p \in Personalities, g \in Goals, r \in Restrictions, a \in BOOLEAN :
        EditInstructionsBy(p, g, r, a)
ResetInstructions == \E a \in BOOLEAN : ResetInstructionsBy(a)

NextChat ==
    \/ SetHome
    \/ ChatJoin
    \/ ChatMessage
    \/ ChatRespond
    \/ Drop
    \/ ResetConversation
    \/ EditInstructions
    \/ ResetInstructions
    \/ OnReady
    \/ Tick

SpecChat == Init /\ [][NextChat]_vars

\* The delivery of long responses: one user, responses of up to MaxChunks
\* whole chunks and a character, each exchange on a history just reset.
\* A character of a response is the number of its position.
Lengths ==
    {n \in 1..(MaxChunks * text_limit + 1) :
        \E k \in 0..MaxChunks : n - k * text_limit \in {-1, 0, 1}}
LongReplies == {[kind |-> "ok", text |-> [i \in 1..n |-> i]] : n \in Lengths}

\* on_message from the end of `await message.add_reaction` up to its first
\* `await message.reply`: pending holds the messages still to be delivered,
\* the first of them being sent.
ResumeReplying(m, a) ==
    LET r == on_message_resume(conversation_history, m, TRUE, a)
    IN  /\ m \in inflight
        /\ replying.pc # "replying"
        /\ conversation_history = reset_conversation_history(instructions)
        /\ inflight' = inflight \ {m}
        /\ conversation_history' = r.history
        /\ replying' = IF r.raised THEN replying
                       ELSE [response |-> r.text, pending |-> replies_of(r.text),
                             replied |-> <<>>, pc |-> "replying"]
        /\ UNCHANGED <<now, home_channel_id, conversation_members,
                       instructions, reaper_pc, it_idx, embed, tick_t0>>

\* `await message.reply` ends: the message is delivered and the next one is
\* sent, or the reply raised and the handler ends with the exception.
ReplyEnds(delivered) ==
    /\ replying.pc = "replying"
    /\ replying' =
           IF delivered
           THEN [replying EXCEPT
                     !.replied = Append(@, Head(replying.pending)),
                     !.pending = Tail(@),
                     !.pc = IF Len(replying.pending) = 1 THEN "idle"
                            ELSE "replying"]
           ELSE [replying EXCEPT !.pc = "raised"]
    /\ UNCHANGED <<now, home_channel_id, conversation_members,
                   conversation_history, instructions, inflight, reaper_pc,
                   it_idx, embed, tick_t0>>

ReplyRespond == \E m \in inflight, a \in LongReplies : ResumeReplying(m, a)
Reply == ReplyEnds(TRUE)
ReplyRaises == ReplyEnds(FALSE)

NextReply ==
    \/ SetHome
    \/ ChatJoin
    \/ ChatMessage
    \/ ReplyRespond
    \/ Reply
    \/ ReplyRaises
    \/ Drop
    \/ ResetConversation

SpecReply == Init /\ [][NextReply]_vars

\* ------------------------------------------------------------------------
\* Properties
\* ------------------------------------------------------------------------
\* The table holds an entry with this id.
InTable(ms, id) == \E i \in DOMAIN ms : ms[i].name = id
Absent == {u \in FullUsers : ~InTable(conversation_members, u)}

\* C1: whatever joins, leaves, messages and ticks have happened, the table
\* never holds more than member_limit (5) entries.
C1_SizeWithinCapacity == Len(conversation_members) <= member_limit

\* The table is full and a sixth user asking to join at home is turned away.
C1_Witness ==
    /\ Len(conversation_members) = member_limit
    /\ \E u \in Absent :
           join_conversation(conversation_members, home_channel_id, u,
                             home_channel_id, now).reply = "Full"

\* A step that ends a tick of check_members without an exception, and the
\* time at which that tick began.
TickEnds == (Tick \/ TickResumeWith("ok")) /\ reaper_pc' = "idle"
TickBegan == IF reaper_pc = "sending" THEN tick_t0 ELSE now

\* C2: when a tick ends, no entry whose deadline had passed when the tick
\* began (now >= end_time) is left in the table: one tick evicts every
\* expired entry, wherever it stands and whatever the others are.
C2_TickEvictsEveryExpired ==
    [][TickEnds =>
          \A i \in 1..Len(conversation_members') :
              conversation_members'[i].end_time > TickBegan]_vars

\* C3: from any table, remove_member(id) removes the entry with that id and
\* returns TRUE when the id is present, wherever it stands; it returns FALSE
\* and leaves the table as it is when the id is absent, and the caller then
\* reports that the user is not a member.
C3_RemoveIffPresent ==
    \A u \in Users :
        LET r == remove_member(conversation_members, u)
            l == leave_conversation(conversation_members, u)
        IN  IF InTable(conversation_members, u)
            THEN /\ r.ok
                 /\ ~InTable(r.members, u)
                 /\ Len(r.members) = Len(conversation_members) - 1
                 /\ l.reply = "Left"
            ELSE /\ ~r.ok
                 /\ r.members = conversation_members
                 /\ l.reply = "NotMember"

\* C4: the conversation history never holds more than the pinned turn and
\* conversation_length - 1 (30) other turns.
C4_HistoryWithinLength ==
    Len(conversation_history) - 1 <= conversation_length - 1

\* C5: every entry of the table has end_time = start_time + max_time, in
\* every state.
C5_DeadlineIsStartPlusTtl ==
    \A i \in 1..Len(conversation_members) :
        conversation_members[i].end_time
            = conversation_members[i].start_time + max_time

\* C6: when the notification of an eviction cannot be delivered, no
\* exception leaves check_members, the tick goes on as after a delivery, and
\* the loop is not stopped.
C6_FailedNotificationNotFatal ==
    reaper_pc = "sending" =>
        \A d \in Deliveries \ {"ok"} :
            LET r == check_members_resume(conversation_members, it_idx, d, now)
            IN  /\ ~r.raised
                /\ r.pc # "stopped"
                /\ r = check_members_resume(conversation_members, it_idx, "ok", now)

\* C7: between the beginning and the end of a tick of check_members no
\* join, leave or message handler changes the table.
C7_TickSerialized ==
    [][(reaper_pc = "sending" /\ (Join \/ Leave \/ Message))
          => UNCHANGED conversation_members]_vars

\* C8: when the backend fails, by a status other than 200 or by no answer at
\* all, the exchange returns "(No Response)" and raises nothing.
C8_FailureGivesPlaceholder ==
    \A m \in inflight, a \in Replies :
        a.kind # "ok" =>
            LET r == on_message_resume(conversation_history, m, TRUE, a)
            IN  ~r.raised /\ r.text = NoResponse

\* C9 as stated: whatever the channel of the request, an id in the table is
\* answered AlreadyMember, an absent id is answered Full when the table
\* holds member_limit entries, the table unchanged in both cases, and an
\* absent id is admitted when the table holds fewer.
C9_AdmissionTyped ==
    \A u \in FullUsers, c \in Channels :
        LET r == join_conversation(conversation_members, home_channel_id,
                                   u, c, now)
        IN  IF InTable(conversation_members, u)
            THEN r.reply = "AlreadyMember" /\ r.members = conversation_members
            ELSE IF Len(conversation_members) = member_limit
            THEN r.reply = "Full" /\ r.members = conversation_members
            ELSE /\ r.reply = "Joined"
                 /\ Len(r.members) = Len(conversation_members) + 1
                 /\ InTable(r.members, u)

\* C9, amended: the above for the requests made in the home channel; a
\* request made in any other channel, or before a home channel is set, is
\* turned away and leaves the table unchanged.
C9_AdmissionTypedAtHome ==
    \A u \in FullUsers, c \in Channels :
        LET r == join_conversation(conversation_members, home_channel_id,
                                   u, c, now)
        IN  IF c # home_channel_id
            THEN r.reply = "NeedHome" /\ r.members = conversation_members
            ELSE IF InTable(conversation_members, u)
            THEN r.reply = "AlreadyMember" /\ r.members = conversation_members
            ELSE IF Len(conversation_members) = member_limit
            THEN r.reply = "Full" /\ r.members = conversation_members
            ELSE /\ r.reply = "Joined"
                 /\ Len(r.members) = Len(conversation_members) + 1
                 /\ SubSeq(r.members, 1, Len(conversation_members))
                        = conversation_members
                 /\ r.members[Len(r.members)].name = u

\* Five distinct ids have been admitted; at home, one of them is answered
\* AlreadyMember and the sixth id Full.
C9_Witness ==
    /\ Cardinality({conversation_members[i].name :
                        i \in 1..Len(conversation_members)}) = member_limit
    /\ \E u \in FullUsers \ Absent :
           join_conversation(conversation_members, home_channel_id, u,
                             home_channel_id, now).reply = "AlreadyMember"
    /\ \E u \in Absent :
           join_conversation(conversation_members, home_channel_id, u,
                             home_channel_id, now).reply = "Full"

\* C10: set_end_time called any number of times in a row on an entry, no
\* time elapsing and no tick in between (burst calls since the entry stood
\* at base_start, base_end), leaves its deadline within one window of the
\* deadline it had before the first call: a bound that does not grow with
\* the number of calls.  (With k windows for one, 2k + 2 calls pass it.)
C10_TouchesDoNotExtend ==
    \A i \in 1..Len(conversation_members) :
        LET m == conversation_members[i]
        IN  now = m.base_start => m.end_time <= m.base_end + max_time

C12_NoUnexpiredEviction ==
    [][(Tick \/ TickResume) =>
          \A i \in 1..Len(conversation_members) :
              ~InTable(conversation_members', conversation_members[i].name)
                  => conversation_members[i].end_time <= now]_vars

\* A tick has evicted an entry and an entry whose deadline has not passed
\* is still in the table.
C12_Witness ==
    /\ reaper_pc = "sending"
    /\ embed.title \in Users
    /\ ~InTable(conversation_members, embed.title)
    /\ \E i \in 1..Len(conversation_members) :
           conversation_members[i].end_time > now

C14_TouchAbsentRejected ==
    \A u \in Users :
        ~InTable(conversation_members, u) =>
            /\ \A c \in Channels, t \in Contents :
                   LET r == on_message(conversation_members, home_channel_id,
                                       u, c, t)
                   IN  r.members = conversation_members /\ ~r.answering
            /\ home_channel_id # None =>
                   on_message(conversation_members, home_channel_id, u,
                              home_channel_id, <<">", "hi">>).reply = "MustJoin"

\* A home channel is set, the table holds a member who has written, and
\* another user, not in the table, writes a prompt there.
C14_Witness ==
    /\ home_channel_id # None
    /\ \E i \in 1..Len(conversation_members) :
           conversation_members[i].untouched_since = {}
    /\ \E u \in Users :
           /\ ~InTable(conversation_members, u)
           /\ on_message(conversation_members, home_channel_id, u,
                         home_channel_id, <<">", "hi">>).reply = "MustJoin"

\* C15: an exchange in which the backend fails, by a status other than 200
\* or by no answer at all, leaves the conversation history as it was with
\* the prompt of the user appended and nothing else, and leaves the table of
\* members as the message left it.
C15_FailedCallAppendsNoResponse ==
    [][\A m \in inflight, a \in Replies :
           (a.kind # "ok" /\ ResumeOf(m, TRUE, a)) =>
               /\ conversation_history' =
                      Append(conversation_history,
                             <<"**", m.author, "**", " said: ", "\"">>
                                 \o Tail(m.content) \o <<"\"">>)
               /\ conversation_members' = conversation_members]_vars

\* A failed exchange has ended on a history that held earlier exchanges: its
\* prompt is the last turn and nothing is being answered.
C15_Witness ==
    /\ inflight = {}
    /\ Len(conversation_history) > 3
    /\ conversation_history[Len(conversation_history)][1] = "**"
    /\ conversation_history[Len(conversation_history) - 1][1] # "**"

\* C16: an exchange, successful or failed, leaves the first element of the
\* conversation history as it was: the deletion that keeps the history at
\* its length never removes or replaces the pinned turn.
C16_PinnedStaysFirst ==
    [][(\E m \in inflight, a \in Replies : ResumeOf(m, TRUE, a)) =>
           /\ Len(conversation_history') >= 1
           /\ conversation_history'[1] = conversation_history[1]]_vars

\* The history has reached its length and its oldest prompt has been
\* deleted: the turn after the first element is an answer.
C16_Witness ==
    /\ Len(conversation_history) >= conversation_length - 1
    /\ conversation_history[1][1] = "commands"
    /\ conversation_history[2][1] # "**"

C18_UniqueIds ==
    \A i, j \in 1..Len(conversation_members) :
        conversation_members[i].name = conversation_members[j].name => i = j

\* While a tick is suspended after an eviction, the evicted user has joined
\* again behind another member, and asks to join once more.
C18_Witness ==
    /\ reaper_pc = "sending"
    /\ Len(conversation_members) = 2
    /\ conversation_members[2].name = embed.title
    /\ join_conversation(conversation_members, home_channel_id, embed.title,
                         home_channel_id, now).reply = "AlreadyMember"

\* C19: a step of check_members removes at most one entry; when it removes
\* one, the task goes on to send one notification, whose title names the
\* removed entry and whose footer gives the number of entries the table
\* holds after the removal, out of member_limit; when it removes none, it
\* sends no notification.
C19_OneNotificationPerEviction ==
    [][(Tick \/ TickResume) =>
          IF conversation_members' # conversation_members
                 /\ Len(conversation_members') < Len(conversation_members)
          THEN /\ reaper_pc' = "sending"
               /\ \E i \in 1..Len(conversation_members) :
                      /\ conversation_members' =
                             SubSeq(conversation_members, 1, i - 1)
                                 \o SubSeq(conversation_members, i + 1,
                                           Len(conversation_members))
                      /\ embed'.title = conversation_members[i].name
               /\ embed'.footer = [current |-> Len(conversation_members'),
                                   limit |-> member_limit]
          ELSE /\ reaper_pc' # "sending"
               /\ embed'.title = None
               /\ Len(conversation_members') = Len(conversation_members)
               /\ \A i \in 1..Len(conversation_members) :
                      conversation_members'[i].name
                          = conversation_members[i].name]_vars

\* A tick has evicted one entry of a table of several: its notification
\* names the entry and counts the entries that are left.
C19_Witness ==
    /\ reaper_pc = "sending"
    /\ embed.title \in Users
    /\ ~InTable(conversation_members, embed.title)
    /\ Len(conversation_members) >= 1
    /\ embed.footer.current = Len(conversation_members)

\* C20: /reset-conversation by an administrator leaves a history of one
\* element, the first element it had before, and the form that edits the
\* instructions leaves a history of one element, the commands followed by
\* the instructions made of its three fields; in both cases the payload of
\* the history, its elements joined by newlines, is exactly that element.
C20_ResetLeavesPinned ==
    [][/\ ResetBy(TRUE) =>
              /\ conversation_history' = <<conversation_history[1]>>
              /\ join(<<"\n">>, conversation_history') = conversation_history[1]
       /\ \A p \in Personalities, g \in Goals, r \in Restrictions :
              EditInstructionsBy(p, g, r, TRUE) =>
                  LET text == commands \o <<"PERSONALITY: ">> \o p
                                  \o <<"\n\nGOAL: ">> \o g
                                  \o <<"\n\nRESTRICTION: ">> \o r
                  IN  /\ conversation_history' = <<text>>
                      /\ join(<<"\n">>, conversation_history') = text]_vars

C25_TouchNeverEarlier ==
    \A i \in 1..Len(conversation_members) :
        set_end_time(conversation_members[i]).end_time
            >= conversation_members[i].end_time

\* C27: in every state the first element of the conversation history is the
\* commands followed by the instructions now in force.
C27_PinnedIsCurrentInstructions ==
    /\ Len(conversation_history) >= 1
    /\ conversation_history[1] = commands \o instructions

\* C26: the table holds an entry only while a home channel is set; a join
\* adds an entry only when it is made in the home channel; and no step takes
\* the home channel from set back to unset.
C26_HomeSetWhileMembers ==
    [][/\ Len(conversation_members') > 0 => home_channel_id' # None
       /\ home_channel_id # None => home_channel_id' # None
       /\ conversation_members' # conversation_members =>
              \A u \in Users, c \in Channels :
                  JoinBy(u, c) => c = home_channel_id]_vars

\* With members in the table, a join from another channel than the home
\* channel is turned away, and the task is sending the notification of an
\* eviction.
C26_Witness ==
    /\ Len(conversation_members) > 0
    /\ reaper_pc = "sending"
    /\ \E u \in Users, c \in Channels :
           /\ c # home_channel_id
           /\ ~InTable(conversation_members, u)
           /\ join_conversation(conversation_members, home_channel_id, u, c,
                                now).reply = "NeedHome"

\* C23: the message of a member first moves the timer of the member's entry,
\* the conversation history untouched; the exchange that follows appends the
\* prompt to the history, posts the history as it then stands, its elements
\* joined by newlines, the first element first and the prompt last, and
\* appends the answer after that, and only when the backend answered with
\* status 200.
C23_ExchangeOrder ==
    [][/\ \A u \in ChatUsers, c \in Channels, t \in Contents :
              (MessageBy(u, c, t) /\ inflight' # inflight) =>
                  /\ conversation_history' = conversation_history
                  /\ \E i \in 1..Len(conversation_members) :
                         /\ conversation_members[i].name = u
                         /\ conversation_members'[i].start_time
                                = conversation_members[i].end_time
       /\ \A m \in inflight, a \in Replies :
              ResumeOf(m, TRUE, a) =>
                  LET prompt == <<"**", m.author, "**", " said: ", "\"">>
                                    \o Tail(m.content) \o <<"\"">>
                      asked == Append(conversation_history, prompt)
                      sent == generate_response(conversation_history, prompt,
                                                a).payload
                  IN  /\ sent = join(<<"\n">>, asked)
                      /\ SubSeq(sent, 1, Len(conversation_history[1]))
                             = conversation_history[1]
                      /\ SubSeq(sent, Len(sent) - Len(prompt) + 1, Len(sent))
                             = prompt
                      /\ Len(conversation_history') >= Len(asked) - 1
                      /\ IF a.kind = "ok"
                         THEN conversation_history'[Len(conversation_history')]
                                  = a.text
                         ELSE conversation_history' = asked]_vars

\* A member's message has moved the member's timer and waits for its
\* exchange, on a history that holds earlier turns.
C23_Witness ==
    /\ inflight # {}
    /\ Len(conversation_history) >= 3
    /\ \E m \in inflight, i \in 1..Len(conversation_members) :
           /\ conversation_members[i].name = m.author
           /\ conversation_members[i].burst >= 1

RECURSIVE Concatenation(_)
\* The messages of a list, one after the other.
Concatenation(messages) ==
    IF Len(messages) = 0 THEN <<>>
    ELSE Head(messages) \o Concatenation(Tail(messages))

\* C21: the messages on_message replies with, those delivered followed by
\* those still to be delivered, are, one after the other, the whole
\* response; for a response longer than text_limit (2000) each of them is
\* non-empty and at most text_limit long, and all but the last are
\* text_limit long; a response of at most text_limit is one message.
C21_ChunksMakeResponse ==
    replying.pc # "idle" \/ Len(replying.replied) > 0 =>
        LET all == replying.replied \o replying.pending
        IN  /\ Concatenation(all) = replying.response
            /\ IF Len(replying.response) > text_limit
               THEN /\ Len(all) > 1
                    /\ \A k \in 1..Len(all) :
                           /\ Len(all[k]) >= 1
                           /\ Len(all[k]) <= text_limit
                           /\ k < Len(all) => Len(all[k]) = text_limit
               ELSE all = <<replying.response>>

\* A response of three chunks and one character more has been delivered in
\* four messages, the last of one character.
C21_Witness ==
    /\ replying.pc = "idle"
    /\ Len(replying.response) = MaxChunks * text_limit + 1
    /\ Len(replying.replied) = MaxChunks + 1
    /\ Len(replying.replied[MaxChunks + 1]) = 1
    /\ replying.pending = <<>>

\* The table holds an entry of this user whose deadline has passed.
Expired(u) ==
    \E i \in 1..Len(conversation_members) :
        /\ conversation_members[i].name = u
        /\ conversation_members[i].end_time <= now

\* C22: while the loop of check_members has not stopped, a user whose entry
\* has passed its deadline does not stay in the table with that deadline for
\* ever: unless a message of the user moves the deadline, the entry is
\* eventually removed, wherever it stands in the table and whatever the
\* other entries are.
C22_IdleEventuallyEvicted ==
    \A u \in Users :
        [](reaper_pc # "stopped") => (Expired(u) ~> ~Expired(u))

====
